---- MODULE Spec2Model ----
(***************************************************************************)
(* Model of src/DDSPreview.py: the DDS preview plugin (DDSPreview) and the *)
(* OpenGL widget it builds for each previewed file (DDSWidget).            *)
(*                                                                         *)
(* Each preview request p is one call of DDSPreview.genFilePreview; a      *)
(* request that succeeds owns one DDSWidget, one "Disable Transparency"    *)
(* checkbox and one colour button.  The plugin settings (transparency and  *)
(* the four background channels) are shared by all panels.                 *)
(*                                                                         *)
(* Python's None is modelled as 0 for object references (texture, vbo,     *)
(* vao, transparecyProgram) and as the empty tuple for the shader program. *)
(* A vbo, vao or transparency program is identified by the number of the   *)
(* context it was created in, a texture by its position in the widget's    *)
(* texture log.                                                            *)
(*                                                                         *)
(* Two specifications share the variables and the actions.  SpecGL is the  *)
(* lifecycle of a DDSWidget: genFilePreview, the contexts Qt gives the     *)
(* widget, initializeGL ending normally or raising at any statement group, *)
(* and the three cleanup triggers, in any order.  SpecUI is the panels'    *)
(* controls and render pass over the plugin settings they share.           *)
(***************************************************************************)
EXTENDS Integers, Sequences, FiniteSets

\* ------------------------------------------------------------------ bounds

\* Number of preview requests (calls of genFilePreview).
NumPanels == 2
\* Number of OpenGL contexts Qt creates for one widget over its life.
MaxCtx == 2
\* Number of times initializeGL is run on one context.
MaxInit == 2

Panels == 1..NumPanels

None == 0
NoProgram == << >>

\* ------------------------------------------------- inputs (decoded files)

SamplerTypes == {"F", "UI", "I"}

\* What ddsFile.load() leaves behind: the fields initializeGL reads.
LoadedFiles == [loaded : {TRUE}, isCubemap : BOOLEAN, samplerType : SamplerTypes]

\* A DDSFile whose load() raised.
FailedFile == [loaded |-> FALSE, isCubemap |-> FALSE, samplerType |-> "F"]

\* No DDSFile object.
NoFile == [loaded |-> FALSE, isCubemap |-> FALSE, samplerType |-> ""]

VARIABLES
    preview,        \* preview[p]: what genFilePreview did for request p
    ddsFile,        \* ddsFile[p]: the DDSFile of request p
    widget,         \* widget[p]: the DDSWidget's fields
    textures,       \* textures[p]: every texture asQOpenGLTexture returned to
                    \*   widget p, in order: the context it was created in and
                    \*   how many times destroy() was called on it
    ctx,            \* ctx[p]: number of the widget's current context (0: none)
    ctxAlive,       \* ctxAlive[p]: the current context is not destroyed
    connections,    \* connections[p]: cleanup slots connected to the current
                    \*   context's aboutToBeDestroyed
    transparency,   \* plugin setting "transparency"
    background,     \* plugin settings "background r/g/b/a"
    checked,        \* checked[p]: state of the panel's checkbox
    updateRequested,\* updateRequested[p]: ddsWidget.update() is pending
    blend,          \* blend[p]: GL_BLEND as the last render pass left it
    last            \* the handler that ran last, and how it ended

vars == << preview, ddsFile, widget, textures, ctx, ctxAlive, connections,
           transparency, background, checked, updateRequested, blend, last >>

glVars == << widget, textures, ctx, ctxAlive, connections >>
uiVars == << transparency, background, checked, updateRequested, blend >>

\* ------------------------------------------------------------- DDSWidget

\* The fields DDSWidget.__init__ sets (lines 162-170).
DDSWidget__init__ ==
    [exists |-> TRUE, clean |-> TRUE, program |-> NoProgram,
     transparecyProgram |-> None, texture |-> None, vbo |-> None, vao |-> None]

\* A request that has no DDSWidget.
NoWidget == [DDSWidget__init__ EXCEPT !.exists = FALSE]

\* Mutant: the unsigned-integer and signed-integer fragment shaders swapped.
SelectShadersSwapped(file) ==
    IF file.isCubemap THEN << "vertexShaderCube", "fragmentShaderCube" >>
    ELSE IF file.samplerType = "F" THEN << "vertexShader2D", "fragmentShaderFloat" >>
    ELSE IF file.samplerType = "UI" THEN << "vertexShader2D", "fragmentShaderSInt" >>
    ELSE << "vertexShader2D", "fragmentShaderUInt" >>

\* initializeGL's choice of << vertexShader, fragmentShader >> (lines 197-210).
SelectShaders(file) ==
    IF file.isCubemap THEN << "vertexShaderCube", "fragmentShaderCube" >>
    ELSE IF file.samplerType = "F" THEN << "vertexShader2D", "fragmentShaderFloat" >>
    ELSE IF file.samplerType = "UI" THEN << "vertexShader2D", "fragmentShaderUInt" >>
    ELSE << "vertexShader2D", "fragmentShaderSInt" >>

\* How a run of initializeGL ends: "ok", or the statement group that raised.
\* Every group after line 195 calls into Qt, OpenGL or the DDS library.
InitOutcomes ==
    { "ok",
      "raise@select",        \* lines 199-210, before self.program is assigned
      "raise@program",       \* lines 213-217, after self.program is assigned
      "raise@transparency",  \* lines 220-223, after self.transparecyProgram
      "raise@vao",           \* line 226, after self.vao is assigned
      "raise@vbo",           \* lines 229-238, after self.vbo is assigned
      "raise@upload" }       \* line 240: asQOpenGLTexture fails

\* The assignments initializeGL has made when it ends with outcome o, in
\* context c, newTex being the texture asQOpenGLTexture returns (lines 195-240).
InitializeGLFields(w, file, c, o, newTex) ==
    LET s1 == [w EXCEPT !.clean = FALSE]
        s2 == [s1 EXCEPT !.program = SelectShaders(file)]
        s3 == [s2 EXCEPT !.transparecyProgram = c]
        s4 == [s3 EXCEPT !.vao = c]
        s5 == [s4 EXCEPT !.vbo = c]
        s6 == [s5 EXCEPT !.texture = newTex]
    IN  CASE o = "raise@select" -> s1
          [] o = "raise@program" -> s2
          [] o = "raise@transparency" -> s3
          [] o = "raise@vao" -> s4
          [] o \in {"raise@vbo", "raise@upload"} -> s5
          [] OTHER -> s6

\* DDSFile.asQOpenGLTexture: one new texture object per call, created in
\* context c.
AsQOpenGLTexture(tex, c) == Append(tex, [ctx |-> c, destroyed |-> 0])

\* Mutant: cleanup destroys the texture but keeps the reference to it
\* (line 292 missing).
CleanupKeepsTexture(w, tex) ==
    IF w.clean THEN [widget |-> w, textures |-> tex]
    ELSE LET w1 == [w EXCEPT !.program = NoProgram, !.transparecyProgram = None]
             tex1 == IF w1.texture # None
                     THEN [tex EXCEPT ![w1.texture].destroyed = @ + 1] ELSE tex
             w2 == w1
             w3 == [w2 EXCEPT !.vbo = None]
         IN  IF w2.vbo = None THEN [widget |-> w2, textures |-> tex1]
             ELSE IF w3.vao = None THEN [widget |-> w3, textures |-> tex1]
             ELSE [widget |-> [w3 EXCEPT !.vao = None, !.clean = TRUE],
                   textures |-> tex1]

\* Mutant: cleanup drops the texture reference without destroying it
\* (lines 290-291 missing).
CleanupForgetsDestroy(w, tex) ==
    IF w.clean THEN [widget |-> w, textures |-> tex]
    ELSE LET w1 == [w EXCEPT !.program = NoProgram, !.transparecyProgram = None]
             tex1 == tex
             w2 == [w1 EXCEPT !.texture = None]
             w3 == [w2 EXCEPT !.vbo = None]
         IN  IF w2.vbo = None THEN [widget |-> w2, textures |-> tex1]
             ELSE IF w3.vao = None THEN [widget |-> w3, textures |-> tex1]
             ELSE [widget |-> [w3 EXCEPT !.vao = None, !.clean = TRUE],
                   textures |-> tex1]

\* DDSWidget.cleanup (lines 284-299) on fields w and texture log tex.  With
\* vbo or vao None the call self.vbo.destroy() / self.vao.destroy() raises
\* AttributeError and the statements after it do not run.
Cleanup(w, tex) ==
    IF w.clean THEN [widget |-> w, textures |-> tex]
    ELSE LET w1 == [w EXCEPT !.program = NoProgram, !.transparecyProgram = None]
             tex1 == IF w1.texture # None
                     THEN [tex EXCEPT ![w1.texture].destroyed = @ + 1] ELSE tex
             w2 == [w1 EXCEPT !.texture = None]
             w3 == [w2 EXCEPT !.vbo = None]
         IN  IF w2.vbo = None THEN [widget |-> w2, textures |-> tex1]
             ELSE IF w3.vao = None THEN [widget |-> w3, textures |-> tex1]
             ELSE [widget |-> [w3 EXCEPT !.vao = None, !.clean = TRUE],
                   textures |-> tex1]

\* Whether cleanup on fields w raises (lines 293, 295).
CleanupRaises(w) == ~w.clean /\ (w.vbo = None \/ w.vao = None)

\* cleanup run n times in a row: one run per connected slot.
RECURSIVE CleanupTimes(_, _, _)
CleanupTimes(n, w, tex) ==
    IF n = 0 THEN [widget |-> w, textures |-> tex]
    ELSE LET s == Cleanup(w, tex) IN CleanupTimes(n - 1, s.widget, s.textures)

\* ------------------------------------------------------------ DDSPreview

\* QColor(r, g, b, a): a colour built from out-of-range channels is invalid.
QColor(r, g, b, a) ==
    [valid |-> \A v \in {r, g, b, a} : v \in 0..255,
     r |-> r, g |-> g, b |-> b, a |-> a]

\* What QColorDialog.getColor can return: a colour the user accepted, or an
\* invalid colour when the dialog is cancelled.
CancelledColour == [valid |-> FALSE, r |-> 0, g |-> 0, b |-> 0, a |-> 255]
DialogColours == << QColor(255, 128, 0, 64), QColor(0, 17, 255, 255) >>

\* The defaults DDSPreview.settings declares (lines 336-340).
DefaultBackground == [r |-> 0, g |-> 0, b |-> 0, a |-> 0]
DefaultTransparency == TRUE

\* DDSPreview.getBackgroundColour (lines 404-406).
getBackgroundColour == QColor(background.r, background.g, background.b, background.a)

\* DDSPreview.getTransparency (lines 408-409).
getTransparency == transparency

\* Mutant: the colour picker stores red, green and blue but not alpha.
PickedBackgroundNoAlpha(old, newColour) ==
    IF newColour.valid
    THEN [r |-> newColour.r, g |-> newColour.g, b |-> newColour.b, a |-> old.a]
    ELSE old

\* The background settings after pickColour got newColour (lines 379-383).
PickedBackground(old, newColour) ==
    IF newColour.valid
    THEN [r |-> newColour.r, g |-> newColour.g, b |-> newColour.b, a |-> newColour.a]
    ELSE old

\* Mutant: toggleTransparency stores the checkbox state itself.
ToggledTransparencyNotNegated(isChecked) == isChecked

\* The value toggleTransparency stores (line 397).
ToggledTransparency(isChecked) == ~isChecked

\* Mutant: paintGL always enables blending.
BlendStateAlwaysEnabled(t) == "enabled"

\* The state paintGL puts GL_BLEND in (lines 272-276).
BlendState(t) == IF t THEN "enabled" ELSE "disabled"

\* Mutant: the DDSWidget is constructed whether or not load() succeeded.
WidgetBuiltBeforeLoad(file) == DDSWidget__init__

\* The DDSWidget genFilePreview constructs (lines 346-355): load() raises
\* before line 355 is reached when the file cannot be decoded.
WidgetBuilt(file) == IF file.loaded THEN DDSWidget__init__ ELSE NoWidget

\* Mutant: genFilePreview returns a panel even when load() failed.
PreviewResultAlwaysShown(file) == "shown"

\* What genFilePreview hands to the host (lines 347, 361-363): the panel, or
\* nothing when load() raised.
PreviewResult(file) == IF file.loaded THEN "shown" ELSE "failed"

Handler(op, p, ok, arg) == [op |-> op, w |-> p, ok |-> ok, arg |-> arg]

\* ---------------------------------------------------------------- actions

Init ==
    /\ preview = [p \in Panels |-> "none"]
    /\ ddsFile = [p \in Panels |-> NoFile]
    /\ widget = [p \in Panels |-> NoWidget]
    /\ textures = [p \in Panels |-> << >>]
    /\ ctx = [p \in Panels |-> 0]
    /\ ctxAlive = [p \in Panels |-> FALSE]
    /\ connections = [p \in Panels |-> 0]
    /\ transparency = DefaultTransparency
    /\ background = DefaultBackground
    /\ checked = [p \in Panels |-> FALSE]
    /\ updateRequested = [p \in Panels |-> FALSE]
    /\ blend = [p \in Panels |-> "unset"]
    /\ last = Handler("none", 0, TRUE, "")

\* DDSPreview.genFilePreview (lines 345-363) for request p on a file that
\* decodes to `file`.  Requests are numbered in the order they are made.
GenFilePreview(p, file) ==
    /\ preview[p] = "none"
    /\ IF p = 1 THEN TRUE ELSE preview[p - 1] # "none"
    /\ ddsFile' = [ddsFile EXCEPT ![p] = file]
    /\ widget' = [widget EXCEPT ![p] = WidgetBuilt(file)]
    /\ preview' = [preview EXCEPT ![p] = PreviewResult(file)]
    /\ checked' = [checked EXCEPT ![p] = IF file.loaded THEN ~getTransparency ELSE @]
    /\ last' = Handler("genFilePreview", p, file.loaded, "")
    /\ UNCHANGED << textures, ctx, ctxAlive, connections, transparency,
                    background, updateRequested, blend >>

\* Qt gives the widget of a panel handed to the host an OpenGL context: the
\* first one, or a new one after the previous one was destroyed.
CreateContext(p) ==
    /\ preview[p] = "shown"
    /\ widget[p].exists
    /\ ~ctxAlive[p]
    /\ ctx[p] < MaxCtx
    /\ ctx' = [ctx EXCEPT ![p] = @ + 1]
    /\ ctxAlive' = [ctxAlive EXCEPT ![p] = TRUE]
    /\ connections' = [connections EXCEPT ![p] = 0]
    /\ last' = Handler("createContext", p, TRUE, "")
    /\ UNCHANGED << preview, ddsFile, widget, textures, uiVars >>

\* DDSWidget.initializeGL (lines 185-240) ending with outcome o.
InitializeGL(p, o) ==
    /\ widget[p].exists
    /\ ctxAlive[p]
    /\ connections[p] < MaxInit
    /\ connections' = [connections EXCEPT ![p] = @ + 1]
    /\ textures' = [textures EXCEPT
                      ![p] = IF o = "ok" THEN AsQOpenGLTexture(@, ctx[p]) ELSE @]
    /\ widget' = [widget EXCEPT
                    ![p] = InitializeGLFields(@, ddsFile[p], ctx[p], o,
                                              Len(textures[p]) + 1)]
    /\ last' = Handler("initializeGL", p, o = "ok", o)
    /\ UNCHANGED << preview, ddsFile, ctx, ctxAlive, uiVars >>

\* A cleanup trigger that calls cleanup once: __del__ (lines 179-180) or
\* __dtor__ (lines 182-183).
CleanupTrigger(p, op) ==
    /\ widget[p].exists
    /\ LET s == Cleanup(widget[p], textures[p])
       IN  /\ widget' = [widget EXCEPT ![p] = s.widget]
           /\ textures' = [textures EXCEPT ![p] = s.textures]
    /\ last' = Handler(op, p, ~CleanupRaises(widget[p]), "")
    /\ UNCHANGED << preview, ddsFile, ctx, ctxAlive, connections, uiVars >>

Del(p) == CleanupTrigger(p, "__del__")

Dtor(p) == CleanupTrigger(p, "__dtor__")

\* The widget's context is destroyed: aboutToBeDestroyed runs every cleanup
\* slot connected at line 193, then the context is gone.
DestroyContext(p) ==
    /\ ctxAlive[p]
    /\ LET s == CleanupTimes(connections[p], widget[p], textures[p])
       IN  /\ widget' = [widget EXCEPT ![p] = s.widget]
           /\ textures' = [textures EXCEPT ![p] = s.textures]
    /\ ctxAlive' = [ctxAlive EXCEPT ![p] = FALSE]
    /\ connections' = [connections EXCEPT ![p] = 0]
    /\ last' = Handler("aboutToBeDestroyed", p,
                       connections[p] = 0 \/ ~CleanupRaises(widget[p]), "")
    /\ UNCHANGED << preview, ddsFile, ctx, uiVars >>

\* Whether paintGL raises before its render pass: binding a None vao or
\* program (lines 254, 257, 267).
PaintRaises(w) == w.vao = None \/ w.transparecyProgram = None \/ w.program = NoProgram

\* DDSWidget.paintGL (lines 251-282).  Qt paints a widget only in a context
\* on which it has run initializeGL.
PaintGL(p) ==
    /\ widget[p].exists
    /\ ctxAlive[p]
    /\ connections[p] > 0
    /\ blend' = [blend EXCEPT ![p] = IF PaintRaises(widget[p]) THEN @
                                     ELSE BlendState(getTransparency)]
    /\ updateRequested' = [updateRequested EXCEPT ![p] = FALSE]
    /\ last' = Handler("paintGL", p, ~PaintRaises(widget[p]), "")
    /\ UNCHANGED << preview, ddsFile, glVars, transparency, background, checked >>

\* toggleTransparency, the checkbox's stateChanged slot (lines 396-399), run
\* with the checkbox in state isChecked.
ToggleTransparencySlot(p, isChecked) ==
    /\ transparency' = ToggledTransparency(isChecked)
    /\ updateRequested' = [updateRequested EXCEPT ![p] = TRUE]

\* The user clicks the checkbox of panel p: its state flips and stateChanged
\* fires.
ClickCheckbox(p) ==
    /\ preview[p] = "shown"
    /\ checked' = [checked EXCEPT ![p] = ~@]
    /\ ToggleTransparencySlot(p, ~checked[p])
    /\ last' = Handler("toggleTransparency", p, TRUE, "")
    /\ UNCHANGED << preview, ddsFile, glVars, background, blend >>

\* The checkbox's showEvent (line 392): setChecked(not getTransparency()).
\* QCheckBox.setChecked emits stateChanged only when the state changes.
ShowEvent(p) ==
    /\ preview[p] = "shown"
    /\ LET newChecked == ~getTransparency
       IN  /\ checked' = [checked EXCEPT ![p] = newChecked]
           /\ IF newChecked # checked[p]
              THEN ToggleTransparencySlot(p, newChecked)
              ELSE UNCHANGED << transparency, updateRequested >>
    /\ last' = Handler("showEvent", p, TRUE, "")
    /\ UNCHANGED << preview, ddsFile, glVars, background, blend >>

\* pickColour, the colour button's clicked slot (lines 377-384), the dialog
\* returning newColour.
PickColour(p, newColour) ==
    /\ preview[p] = "shown"
    /\ background' = PickedBackground(background, newColour)
    /\ updateRequested' = [updateRequested EXCEPT
                             ![p] = IF newColour.valid THEN TRUE ELSE @]
    /\ last' = Handler("pickColour", p, newColour.valid, "")
    /\ UNCHANGED << preview, ddsFile, glVars, transparency, checked, blend >>

\* A widget's handlers read and write only that widget's fields, texture log
\* and context, so the widget lifecycle is explored for one preview request.
OneWidget == {p \in Panels : \A q \in Panels : p <= q}

\* The widget lifecycle: every file kind, every way initializeGL can end,
\* every cleanup trigger.
NextGL ==
    \/ \E p \in OneWidget, file \in LoadedFiles \cup {FailedFile} : GenFilePreview(p, file)
    \/ \E p \in OneWidget : CreateContext(p)
    \/ \E p \in OneWidget, o \in InitOutcomes : InitializeGL(p, o)
    \/ \E p \in OneWidget : Del(p)
    \/ \E p \in OneWidget : Dtor(p)
    \/ \E p \in OneWidget : DestroyContext(p)

SpecGL == Init /\ [][NextGL]_vars

\* The file previewed in the panels of SpecUI: the settings and controls do
\* not read the file's format.
PanelFiles == {[loaded |-> TRUE, isCubemap |-> FALSE, samplerType |-> "F"], FailedFile}

\* The panels' controls and render pass over the shared plugin settings.
\* Here initializeGL runs as Qt runs it, once on each new context.
NextUI ==
    \/ \E p \in Panels, file \in PanelFiles : GenFilePreview(p, file)
    \/ \E p \in Panels : CreateContext(p)
    \/ \E p \in Panels, o \in {"ok", "raise@select"} :
          connections[p] = 0 /\ InitializeGL(p, o)
    \/ \E p \in Panels : PaintGL(p)
    \/ \E p \in Panels : ClickCheckbox(p)
    \/ \E p \in Panels : ShowEvent(p)
    \/ \E p \in Panels, i \in 1..Len(DialogColours) : PickColour(p, DialogColours[i])
    \/ \E p \in Panels : PickColour(p, CancelledColour)

SpecUI == Init /\ [][NextUI]_vars

\* ----------------------------------------------------------------- claims

CleanupOps == {"__del__", "__dtor__", "aboutToBeDestroyed"}

\* Textures of widget p on which destroy() has not been called.
Live(p) == {t \in 1..Len(textures[p]) : textures[p][t].destroyed = 0}

\* Live textures of widget p that the widget no longer refers to.
Leaked(p) == Live(p) \ {widget[p].texture}

\* The contexts of widget p that have been destroyed.
DestroyedContexts(p) == {c \in 1..ctx[p] : c < ctx[p] \/ ~ctxAlive[p]}

AllNone(w) ==
    /\ w.program = NoProgram
    /\ w.transparecyProgram = None
    /\ w.texture = None
    /\ w.vbo = None
    /\ w.vao = None

\* The shader pair the claim prescribes for a decoded file.
PrescribedShaders(isCubemap, samplerType) ==
    CASE isCubemap -> << "vertexShaderCube", "fragmentShaderCube" >>
      [] ~isCubemap /\ samplerType = "F" -> << "vertexShader2D", "fragmentShaderFloat" >>
      [] ~isCubemap /\ samplerType = "UI" -> << "vertexShader2D", "fragmentShaderUInt" >>
      [] ~isCubemap /\ samplerType = "I" -> << "vertexShader2D", "fragmentShaderSInt" >>

\* C1: whenever a widget holds a shader program, its vertex/fragment pair is
\* the one prescribed for its file's isCubemap flag and sampler type alone:
\* cubemap -> cube pair; otherwise the 2D vertex shader with the float,
\* unsigned-integer or signed-integer fragment shader.
C1_ShaderPairFromFile ==
    \A p \in Panels :
        widget[p].program # NoProgram =>
            widget[p].program =
                PrescribedShaders(ddsFile[p].isCubemap, ddsFile[p].samplerType)

\* A cubemap whose samples are unsigned integers is drawn with the cube pair.
C1_Witness ==
    \E p \in Panels :
        /\ ddsFile[p].isCubemap
        /\ ddsFile[p].samplerType = "UI"
        /\ widget[p].program = << "vertexShaderCube", "fragmentShaderCube" >>

\* C2: a DDSWidget exists, a context is given to it, initializeGL runs and
\* asQOpenGLTexture returns textures only for a file whose load() succeeded;
\* a request whose load() failed returned nothing and has no widget.
C2_DecodeBeforeGpu ==
    \A p \in Panels :
        /\ widget[p].exists => ddsFile[p].loaded
        /\ ctx[p] > 0 => ddsFile[p].loaded
        /\ textures[p] # << >> => ddsFile[p].loaded
        /\ (last.op = "initializeGL" /\ last.w = p) => ddsFile[p].loaded
        /\ (preview[p] # "none" /\ ~ddsFile[p].loaded) =>
               /\ preview[p] = "failed"
               /\ ~widget[p].exists
               /\ textures[p] = << >>

\* A request whose load() failed.
C2_Witness ==
    \E p \in Panels :
        /\ preview[p] = "failed"
        /\ ddsFile[p] = FailedFile
        /\ last.op = "genFilePreview"
        /\ ~last.ok

\* C3: destroy() is called at most once on every texture, whatever the order
\* of initializeGL runs and cleanup triggers; and cleanup on a clean widget
\* changes no field and destroys nothing.
C3_DestroyAtMostOnce ==
    \A p \in Panels :
        /\ \A t \in 1..Len(textures[p]) : textures[p][t].destroyed <= 1
        /\ widget[p].clean =>
               Cleanup(widget[p], textures[p]) =
                   [widget |-> widget[p], textures |-> textures[p]]

\* initializeGL ran twice on one context, so aboutToBeDestroyed ran cleanup
\* twice in a row: the texture the widget held is destroyed exactly once.
C3_Witness ==
    \E p \in Panels :
        /\ last.op = "aboutToBeDestroyed"
        /\ last.w = p
        /\ Len(textures[p]) = 2
        /\ textures[p][1].ctx = textures[p][2].ctx
        /\ textures[p][2].destroyed = 1
        /\ widget[p].clean

\* C4 as stated: no live texture is ever overwritten or dropped, so at most
\* one live texture exists per widget and it is the one the widget holds.
C4_NeverDropsLiveTexture ==
    \A p \in Panels :
        /\ Leaked(p) = {}
        /\ Cardinality(Live(p)) <= 1

C4_StateInv ==
    \A p \in Panels :
        \* the texture the widget holds is one it obtained, and is live
        /\ widget[p].texture # None => widget[p].texture \in Live(p)
        \* any cleanup trigger destroys the held texture and clears the field
        /\ LET s == Cleanup(widget[p], textures[p])
           IN  /\ s.widget.texture = None
               /\ widget[p].texture # None =>
                      s.textures[widget[p].texture].destroyed = 1

C4_Step ==
    \A p \in Panels :
        \* each run of initializeGL obtains at most one texture and holds it
        /\ \/ textures'[p] = textures[p]
           \/ Len(textures'[p]) = Len(textures[p])
           \/ /\ Len(textures'[p]) = Len(textures[p]) + 1
              /\ widget'[p].texture = Len(textures'[p])
        \* a live texture is dropped only by an initializeGL that runs while
        \* the widget still holds one
        /\ Leaked(p)' # Leaked(p) =>
               /\ widget[p].texture # None
               /\ widget'[p].texture = Len(textures[p]) + 1
               /\ Leaked(p)' = Leaked(p) \cup {widget[p].texture}
        \* an initializeGL that starts with no texture held drops nothing
        /\ widget[p].texture = None => Leaked(p)' = Leaked(p)

\* C4, amended: every texture initializeGL obtains is held in self.texture;
\* every cleanup trigger destroys the held texture and clears the field; a
\* live texture is overwritten only by an initializeGL that runs while the
\* widget still holds a texture.
C4_LeakOnlyOnReinit == [][C4_Step]_vars /\ []C4_StateInv

\* Initialise, clean up, initialise again: the first texture is destroyed,
\* the second is held and live, nothing has leaked.
C4_Witness ==
    \E p \in Panels :
        /\ Len(textures[p]) = 2
        /\ textures[p][1].destroyed = 1
        /\ widget[p].texture = 2
        /\ Live(p) = {2}

\* C5: no widget holds a texture, vbo or vao created in a context that has
\* been destroyed.
C5_ReleasedBeforeContextDestroyed ==
    \A p \in Panels : \A c \in DestroyedContexts(p) :
        /\ ~(widget[p].texture # None /\ textures[p][widget[p].texture].ctx = c)
        /\ widget[p].vbo # c
        /\ widget[p].vao # c

\* C6 as stated: when load() or asQOpenGLTexture fails for a file, no panel
\* for that file has been handed to the host.
C6_NoPanelOnDecodeOrUploadFailure ==
    \A p \in Panels :
        /\ (preview[p] # "none" /\ ~ddsFile[p].loaded) => preview[p] = "failed"
        /\ (last.op = "initializeGL" /\ last.arg = "raise@upload" /\ last.w = p) =>
               preview[p] # "shown"

\* C6, amended: a failed load() makes genFilePreview hand nothing to the
\* host; initializeGL, and with it asQOpenGLTexture, runs only on the widget
\* of a panel already handed over, and a failed upload leaves that panel
\* shown, the widget not clean and without a new texture.
C6_NoPanelOnDecodeFailure ==
    \A p \in Panels :
        /\ (preview[p] # "none" /\ ~ddsFile[p].loaded) => preview[p] = "failed"
        /\ (last.op = "initializeGL" /\ last.w = p) => preview[p] = "shown"
        /\ (last.op = "initializeGL" /\ last.arg = "raise@upload" /\ last.w = p) =>
               /\ preview[p] = "shown"
               /\ ~widget[p].clean
               /\ widget[p].vbo # None
               /\ textures[p] = << >> => widget[p].texture = None

\* The first upload for a shown panel failed.
C6_Witness ==
    \E p \in Panels :
        /\ last.op = "initializeGL"
        /\ last.arg = "raise@upload"
        /\ last.w = p
        /\ preview[p] = "shown"
        /\ textures[p] = << >>

\* C10: clean implies the five resource fields are None, not clean implies
\* vbo and vao are not None, and cleanup always ends clean with all five None.
C10_CleanFlagAgrees ==
    \A p \in Panels :
        widget[p].exists =>
            /\ widget[p].clean => AllNone(widget[p])
            /\ ~widget[p].clean => (widget[p].vbo # None /\ widget[p].vao # None)
            /\ LET s == Cleanup(widget[p], textures[p])
               IN  s.widget.clean /\ AllNone(s.widget)

\* C7: a paintGL that reaches its render pass leaves GL_BLEND enabled iff
\* the stored transparency is true at that moment; the toggle slot stores
\* transparency = not checked and requests a repaint; the setting changes in
\* no other way, so a paint right after a toggle blends iff the toggled
\* checkbox is unchecked.
C7_Step ==
    /\ (last'.op = "paintGL" /\ last'.ok) =>
           (blend'[last'.w] = "enabled" <=> transparency)
    /\ (last'.op = "paintGL" /\ ~last'.ok) => blend' = blend
    /\ last'.op = "toggleTransparency" =>
           /\ transparency' = ~checked'[last'.w]
           /\ updateRequested'[last'.w]
    /\ transparency' # transparency => last'.op = "toggleTransparency"
    /\ (last.op = "toggleTransparency" /\ last'.op = "paintGL" /\ last'.ok) =>
           (blend'[last'.w] = "enabled" <=> ~checked[last.w])

C7_PaintUsesTransparency == [][C7_Step]_vars

\* A paint after the user ticked "Disable Transparency" draws without blending.
C7_Witness ==
    /\ last.op = "paintGL"
    /\ last.ok
    /\ ~transparency
    /\ checked[last.w]
    /\ blend[last.w] = "disabled"

C8_Step ==
    /\ (last'.op = "pickColour" /\ ~last'.ok) =>
           /\ background' = background
           /\ updateRequested' = updateRequested
    /\ (last'.op = "pickColour" /\ last'.ok) =>
           /\ \E i \in 1..Len(DialogColours) :
                  background' = [r |-> DialogColours[i].r, g |-> DialogColours[i].g,
                                 b |-> DialogColours[i].b, a |-> DialogColours[i].a]
           /\ updateRequested'[last'.w]
    /\ background' # background => last'.op = "pickColour"

\* C8: each background channel stays in 0..255; a cancelled colour dialog
\* changes no channel and requests no repaint; an accepted colour sets all
\* four channels to that colour's and requests a repaint.
C8_BackgroundAllOrNothing ==
    /\ [](/\ \A ch \in {background.r, background.g, background.b, background.a} :
                 ch \in 0..255
          /\ getBackgroundColour.valid)
    /\ [][C8_Step]_vars

\* The dialog returned an accepted colour: all four settings are its channels
\* and a repaint is requested.
C8_Witness ==
    /\ last.op = "pickColour"
    /\ last.ok
    /\ background = [r |-> 0, g |-> 17, b |-> 255, a |-> 255]
    /\ updateRequested[last.w]

\* C9: right after a panel's show event its checkbox is checked iff the
\* stored transparency is false, and the stored transparency is what it was
\* before the event.
C9_Step ==
    last'.op = "showEvent" =>
        /\ checked'[last'.w] = ~transparency'
        /\ transparency' = transparency

C9_ShowEventResyncs == [][C9_Step]_vars

\* Two panels are shown, transparency was switched off in one, and the show
\* event of the other has just ticked its checkbox.
C9_Witness ==
    \E p, q \in Panels :
        /\ p # q
        /\ last.op = "showEvent"
        /\ last.w = p
        /\ preview[q] = "shown"
        /\ ~transparency
        /\ checked[p]
        /\ checked[q]
        /\ updateRequested[p]
        /\ blend[p] = "enabled"

====
